---------------------------- MODULE Spec2Model ----------------------------
(***************************************************************************)
(* Model of the data_scraping package: WebScraper.handle_pagination and    *)
(* fetch_page (web_scraper.py), APIFetcher.fetch_paginated_data,           *)
(* _make_request, fetch_headers and fetch_data_with_retry                  *)
(* (api_fetcher.py), and DataCleaner.normalize_text (data_cleaner.py).     *)
(*                                                                         *)
(* One call of one method is modelled per behaviour.  The transport        *)
(* (requests), the site and the robots.txt policy are the environment:     *)
(* the site and the policy are fixed when the call starts, the outcome of  *)
(* every network call is chosen when the call is made.                     *)
(***************************************************************************)
EXTENDS Integers, Sequences, FiniteSets

(***************************************************************************)
(* Bounds of the model.                                                    *)
(***************************************************************************)
NumPages == 3        \* URLs of the scraped site are 1..NumPages
MaxFetches == 4      \* network calls per call of a pagination loop
MaxStartPage == 2    \* start_page is drawn from 0..MaxStartPage
MaxRetries == 3      \* retries is drawn from -1..MaxRetries
MaxLen == 4          \* length of the strings given to normalize_text

(***************************************************************************)
(* Values.                                                                 *)
(***************************************************************************)
EmptyUrl == 0                    \* the empty string '' (falsy) as a URL
Pages == 1..NumPages
Urls == {EmptyUrl} \cup Pages
BaseUrl == 1                     \* self.base_url, itself a URL of the site

\* What response.json() yields for a page of an API.
ItemSeqs == { <<>>, <<"a", "b">>, <<"b">> }
\* What parser_func(soup) yields for page p of the site: nothing, or two items
\* of which the second is also found on every other non-empty page.
PageItems(p, filled) == IF filled THEN <<p, 0>> ELSE <<>>

\* The element soup.select_one(next_page_selector) finds: no element at all,
\* or an anchor whose href is missing/empty (EmptyUrl) or names a page.
NoAnchor == [anchor |-> FALSE, href |-> EmptyUrl]
Links == {NoAnchor} \cup { [anchor |-> TRUE, href |-> h] : h \in Urls }

NoError == [kind |-> "none", attempt |-> 0]

VARIABLES
    call,        \* the method under execution
    phase,       \* "running", "returned" or "raised"
    log,         \* every can_fetch consultation and network call, in order
    all_data,    \* the accumulator of the pagination loops
    retval,      \* the value returned ([none |-> TRUE] is Python's None)
    error,       \* the exception that left the call
    method,      \* the method argument
    \* WebScraper
    site,        \* page -> [items, next]: what each URL serves
    disallowed,  \* URLs robots.txt denies to self.user_agent
    start,       \* the url argument of handle_pagination
    url,         \* the loop variable url
    \* APIFetcher.fetch_paginated_data
    callerParams,   \* the dict object the caller passed as params
    callerBefore,   \* its contents when the call started
    paramsRef,      \* what the local name params is bound to
    freshParams,    \* the dict object created by `params or {}`
    next_page_param,
    start_page,
    page,
    \* APIFetcher.fetch_data_with_retry
    retries,
    attempt,
    json_error_is_transport,   \* the installed requests raises its own
                               \* JSONDecodeError (a RequestException)
    \* DataCleaner.normalize_text
    text,        \* the input string, a sequence of characters
    flags,       \* remove_html, remove_special_chars, to_lower
    passes       \* outputs of successive normalize_text applications

commonVars == <<call, phase, log, all_data, retval, error, method>>
webVars == <<site, disallowed, start, url>>
apiVars == <<callerParams, callerBefore, paramsRef, freshParams,
             next_page_param, start_page, page>>
retryVars == <<retries, attempt, json_error_is_transport>>
textVars == <<text, flags, passes>>
vars == <<commonVars, webVars, apiVars, retryVars, textVars>>

None == [none |-> TRUE, value |-> <<>>]
Value(v) == [none |-> FALSE, value |-> v]

(***************************************************************************)
(* Values of the variables a call does not use.                            *)
(***************************************************************************)
IdleWeb ==
    /\ site = [p \in Pages |-> [items |-> <<>>,
                                next |-> [anchor |-> FALSE, href |-> 0]]]
    /\ disallowed = {}
    /\ start = EmptyUrl
    /\ url = EmptyUrl

IdleApi ==
    /\ callerParams = {}
    /\ callerBefore = {}
    /\ paramsRef = "none"
    /\ freshParams = {}
    /\ next_page_param = "page"
    /\ start_page = 0
    /\ page = 0

IdleRetry ==
    /\ retries = 0
    /\ attempt = 0
    /\ json_error_is_transport = FALSE

IdleText ==
    /\ text = <<>>
    /\ flags = [remove_html |-> FALSE, remove_special_chars |-> FALSE,
                to_lower |-> FALSE]
    /\ passes = <<>>

Started ==
    /\ phase = "running"
    /\ log = <<>>
    /\ all_data = <<>>
    /\ retval = None
    /\ error = NoError

(***************************************************************************)
(* WebScraper                                                              *)
(***************************************************************************)
WebMethods == {"GET", "POST", "PUT"}
WebOutcomes == {"ok", "status", "connection"}

\* urllib.parse.urljoin(self.base_url, url): an empty reference yields the
\* base itself; every other reference is abstracted to the URL it resolves to.
urljoin(base, u) == IF u = EmptyUrl THEN base ELSE u

_is_allowed_by_robots(u) == u \notin disallowed

CanFetchEvent(u) ==
    [op |-> "can_fetch", url |-> u, allowed |-> _is_allowed_by_robots(u)]
WebRequestEvent(u, m, outcome) ==
    [op |-> "request", url |-> u, method |-> m, outcome |-> outcome]

\* A variant of fetch_page that sends the request before it consults the
\* policy.
fetch_page_unchecked(u, m, outcome) ==
    LET full_url == urljoin(BaseUrl, u) IN
    IF m \notin {"GET", "POST"}
    THEN [events |-> <<>>, end |-> "ValueError", full_url |-> full_url]
    ELSE [events |-> <<WebRequestEvent(full_url, m, outcome),
                       CanFetchEvent(full_url)>>,
          end |-> IF ~_is_allowed_by_robots(full_url) THEN "PermissionError"
                  ELSE IF outcome = "ok" THEN "ok" ELSE "RequestException",
          full_url |-> full_url]

\* A variant of fetch_page without response.raise_for_status(): a non-2xx
\* response is handed on like a good one.
fetch_page_no_raise(u, m, outcome) ==
    LET full_url == urljoin(BaseUrl, u) IN
    IF ~_is_allowed_by_robots(full_url)
    THEN [events |-> <<CanFetchEvent(full_url)>>, end |-> "PermissionError",
          full_url |-> full_url]
    ELSE IF m \notin {"GET", "POST"}
    THEN [events |-> <<CanFetchEvent(full_url)>>, end |-> "ValueError",
          full_url |-> full_url]
    ELSE [events |-> <<CanFetchEvent(full_url),
                       WebRequestEvent(full_url, m, outcome)>>,
          end |-> IF outcome = "connection" THEN "RequestException" ELSE "ok",
          full_url |-> full_url]

\* fetch_page(url, params, method) with the transport answering `outcome`:
\* the events it causes and how it ends.
fetch_page(u, m, outcome) ==
    LET full_url == urljoin(BaseUrl, u) IN
    IF ~_is_allowed_by_robots(full_url)
    THEN [events |-> <<CanFetchEvent(full_url)>>, end |-> "PermissionError",
          full_url |-> full_url]
    ELSE IF m \notin {"GET", "POST"}
    THEN [events |-> <<CanFetchEvent(full_url)>>, end |-> "ValueError",
          full_url |-> full_url]
    ELSE [events |-> <<CanFetchEvent(full_url),
                       WebRequestEvent(full_url, m, outcome)>>,
          end |-> IF outcome = "ok" THEN "ok" ELSE "RequestException",
          full_url |-> full_url]

\* Page p carries a next-page reference.
HasNextRef(p) == site[p].next.anchor /\ site[p].next.href # EmptyUrl

\* The pages met from p following next-page references, at most n of them.
RECURSIVE WalkFrom(_, _)
WalkFrom(p, n) ==
    IF n = 0 THEN <<>>
    ELSE IF HasNextRef(p) THEN <<p>> \o WalkFrom(site[p].next.href, n - 1)
    ELSE <<p>>

Chain == IF start = EmptyUrl THEN <<>> ELSE WalkFrom(start, NumPages)

\* The site as far as the call can see it: the pages no chain of next-page
\* references leads to from the start are never read, and are left blank.
BlankPage == [items |-> <<>>, next |-> NoAnchor]
Reached == { Chain[i] : i \in 1..Len(Chain) }

WebInit ==
    /\ call = "handle_pagination"
    /\ Started
    /\ method \in WebMethods
    /\ start \in {EmptyUrl, BaseUrl}
    /\ url = start
    /\ \E filled \in SUBSET Pages, links \in [Pages -> Links] :
         site = [p \in Pages |-> [items |-> PageItems(p, p \in filled),
                                  next |-> links[p]]]
    /\ disallowed \in SUBSET Pages
    /\ \A p \in Pages \ Reached : site[p] = BlankPage /\ p \notin disallowed
    /\ IdleApi /\ IdleRetry /\ IdleText

\* `while url:` is false: the loop is left and all_data returned.
HandlePaginationExit ==
    /\ call = "handle_pagination"
    /\ phase = "running"
    /\ url = EmptyUrl
    /\ phase' = "returned"
    /\ retval' = Value(all_data)
    /\ UNCHANGED <<call, log, all_data, error, method>>
    /\ UNCHANGED <<webVars, apiVars, retryVars, textVars>>

\* A variant of extend that drops the items the accumulator already holds.
extend_dedup(acc, data) ==
    acc \o SelectSeq(data, LAMBDA x : \A i \in 1..Len(acc) : acc[i] # x)

\* all_data.extend(data)
extend(acc, data) == acc \o data

\* A variant of the test that does not look at the href.
has_next_href_anchor_only(next_page) == next_page.anchor

\* `if next_page and next_page.get('href')`
has_next_href(next_page) == next_page.anchor /\ next_page.href # EmptyUrl

\* One iteration of the loop of handle_pagination.
HandlePaginationIterate ==
    /\ call = "handle_pagination"
    /\ phase = "running"
    /\ url # EmptyUrl
    /\ Len(SelectSeq(log, LAMBDA e : e.op = "request")) < MaxFetches
    /\ \E outcome \in WebOutcomes :
         LET r == fetch_page(url, method, outcome)
             soup == site[r.full_url]
             next_page == soup.next
         IN  /\ log' = log \o r.events
             /\ IF r.end # "ok"
                THEN /\ phase' = "raised"
                     /\ error' = [kind |-> r.end, attempt |-> 0]
                     /\ UNCHANGED <<all_data, retval, url>>
                ELSE /\ all_data' = extend(all_data, soup.items)
                     /\ error' = error
                     /\ IF has_next_href(next_page)
                        THEN /\ url' = urljoin(BaseUrl, next_page.href)
                             /\ UNCHANGED <<phase, retval>>
                        ELSE /\ phase' = "returned"
                             /\ retval' = Value(all_data')
                             /\ url' = url
    /\ UNCHANGED <<call, method, site, disallowed, start>>
    /\ UNCHANGED <<apiVars, retryVars, textVars>>

WebNext == HandlePaginationExit \/ HandlePaginationIterate

WebSpec == WebInit /\ [][WebNext]_vars

(***************************************************************************)
(* APIFetcher                                                              *)
(***************************************************************************)
ApiMethods == {"GET", "POST", "PUT", "DELETE", "HEAD", "PATCH"}
ApiOutcomes == {"ok", "status", "connection", "malformed"}
ParamKeys == {"page", "q"}

\* A Python dict is the set of its <<key, value>> items.
EmptyDict == {}
DictSet(d, k, v) == { e \in d : e[1] # k } \cup { <<k, v>> }
DictGet(d, k) == (CHOOSE e \in d : e[1] = k)[2]
CallerDicts == { EmptyDict, {<<"q", 5>>}, {<<"page", 9>>},
                 {<<"q", 5>>, <<"page", 9>>} }

\* _make_request(url, params, method, ...) with the transport answering
\* `outcome`: whether a network call is issued and how the call ends.
\* "malformed" is a 2xx response whose body is not JSON: _make_request
\* returns it like any other response.
_make_request(m, outcome) ==
    IF m \notin {"GET", "POST", "PUT", "DELETE"}
    THEN [sent |-> FALSE, end |-> "ValueError"]
    ELSE IF outcome \in {"connection", "status"}
    THEN [sent |-> TRUE, end |-> "RequestException"]
    ELSE [sent |-> TRUE, end |-> "response"]

\* response.json() on the response _make_request returned.
response_json(outcome) ==
    IF outcome = "malformed" THEN "JSONDecodeError" ELSE "ok"

ApiRequestEvent(m, params, outcome, items, hasNext) ==
    [op |-> "request", method |-> m, params |-> params, outcome |-> outcome,
     items |-> items, hasNext |-> hasNext]

PagedInit ==
    /\ call = "fetch_paginated_data"
    /\ Started
    /\ method \in ApiMethods
    /\ \/ /\ paramsRef = "none"          \* params=None
          /\ callerParams = EmptyDict
       \/ /\ paramsRef = "caller"        \* params is the caller's dict
          /\ callerParams \in CallerDicts
    /\ callerBefore = callerParams
    /\ freshParams = EmptyDict
    /\ next_page_param \in ParamKeys
    /\ start_page \in 0..MaxStartPage
    /\ page = start_page
    /\ IdleWeb /\ IdleRetry /\ IdleText

\* The dict the local name params denotes (None is falsy like {}).
ParamsValue ==
    CASE paramsRef = "caller" -> callerParams
      [] paramsRef = "fresh" -> freshParams
      [] OTHER -> EmptyDict

\* `params = params or {}`: the object params is bound to afterwards.
params_or_empty == IF ParamsValue # EmptyDict THEN paramsRef ELSE "fresh"

\* A variant of the increment that skips a page number.
next_page_number_skip(p) == p + 2

\* page += 1
next_page_number(p) == p + 1

\* One iteration of the loop of fetch_paginated_data.
FetchPaginatedIterate ==
    /\ call = "fetch_paginated_data"
    /\ phase = "running"
    /\ Len(SelectSeq(log, LAMBDA e : e.op = "request")) < MaxFetches
    /\ LET ref == params_or_empty
           params == DictSet(ParamsValue, next_page_param, page)
       IN
       /\ paramsRef' = ref
       /\ IF ref = "caller"
          THEN callerParams' = params /\ freshParams' = freshParams
          ELSE freshParams' = params /\ callerParams' = callerParams
       /\ \E outcome \in ApiOutcomes, items \in ItemSeqs, hasNext \in BOOLEAN :
            LET r == _make_request(method, outcome)
                parsed == response_json(outcome)
                good == r.end = "response" /\ parsed = "ok"
            IN  \* a failed call carries no items and no links
                /\ ~good => (items = <<>> /\ ~hasNext)
                /\ log' = IF r.sent
                          THEN Append(log, ApiRequestEvent(method, params,
                                               outcome, items, hasNext))
                          ELSE log
                /\ IF ~good
                   THEN /\ phase' = "raised"
                        /\ error' = [kind |-> IF r.end = "response"
                                              THEN parsed ELSE r.end,
                                     attempt |-> 0]
                        /\ UNCHANGED <<all_data, retval, page>>
                   ELSE /\ all_data' = extend(all_data, items)
                        /\ error' = error
                        /\ IF ~hasNext    \* 'next' not in response.links
                           THEN /\ phase' = "returned"
                                /\ retval' = Value(all_data')
                                /\ page' = page
                           ELSE /\ page' = next_page_number(page)
                                /\ UNCHANGED <<phase, retval>>
    /\ UNCHANGED <<call, method, callerBefore, next_page_param, start_page>>
    /\ UNCHANGED <<webVars, retryVars, textVars>>

PagedNext == FetchPaginatedIterate

PagedSpec == PagedInit /\ [][PagedNext]_vars

(***************************************************************************)
(* APIFetcher.fetch_data, fetch_headers, fetch_data_with_retry             *)
(***************************************************************************)
\* fetch_data(endpoint, params, method, ...): _make_request, then
\* response.json().
fetch_data(m, outcome) ==
    LET r == _make_request(m, outcome) IN
    IF r.end # "response" THEN r
    ELSE [sent |-> TRUE, end |-> response_json(outcome)]

\* A variant that catches every exception.
is_RequestException_any(kind) == TRUE

\* `except requests.RequestException`: the errors the retry wrapper catches.
is_RequestException(kind) ==
    \/ kind = "RequestException"
    \/ kind = "JSONDecodeError" /\ json_error_is_transport

ClientInit ==
    /\ Started
    /\ \/ /\ call = "fetch_data_with_retry"
          /\ method \in ApiMethods
          /\ retries \in -1..MaxRetries
          /\ json_error_is_transport \in BOOLEAN
       \/ /\ call = "fetch_headers"
          /\ method = "HEAD"
          /\ retries = 0
          /\ json_error_is_transport = FALSE
    /\ attempt = 0
    /\ IdleWeb /\ IdleApi /\ IdleText

\* fetch_headers(endpoint, params): _make_request(..., method='HEAD') and
\* response.headers.
FetchHeaders ==
    /\ call = "fetch_headers"
    /\ phase = "running"
    /\ \E outcome \in ApiOutcomes, items \in ItemSeqs :
         LET r == _make_request(method, outcome) IN
         /\ items = <<>>     \* only the headers of the response are read
         /\ log' = IF r.sent
                   THEN Append(log, ApiRequestEvent(method, EmptyDict,
                                        outcome, items, FALSE))
                   ELSE log
         /\ IF r.end = "response"
            THEN /\ phase' = "returned"
                 /\ retval' = Value(<<"headers">>)
                 /\ error' = error
            ELSE /\ phase' = "raised"
                 /\ error' = [kind |-> r.end, attempt |-> 0]
                 /\ retval' = retval
    /\ UNCHANGED <<call, all_data, method>>
    /\ UNCHANGED <<webVars, apiVars, retryVars, textVars>>

\* A variant of the test that is never true inside the loop.
attempts_exhausted_late(a, n) == a > n

\* `if attempt == retries: raise`
attempts_exhausted(a, n) == a = n

\* `while attempt < retries` is false: the function falls off its end.
RetryExit ==
    /\ call = "fetch_data_with_retry"
    /\ phase = "running"
    /\ ~(attempt < retries)
    /\ phase' = "returned"
    /\ retval' = None
    /\ UNCHANGED <<call, log, all_data, error, method>>
    /\ UNCHANGED <<webVars, apiVars, retryVars, textVars>>

\* One iteration of the loop of fetch_data_with_retry: one fetch_data call.
RetryAttempt ==
    /\ call = "fetch_data_with_retry"
    /\ phase = "running"
    /\ attempt < retries
    /\ \E outcome \in ApiOutcomes, items \in ItemSeqs :
         LET r == fetch_data(method, outcome) IN
         /\ r.end # "ok" => items = <<>>
         /\ log' = IF r.sent
                   THEN Append(log, ApiRequestEvent(method, EmptyDict,
                                        outcome, items, FALSE))
                   ELSE log
         /\ IF r.end = "ok"
            THEN /\ phase' = "returned"
                 /\ retval' = Value(items)
                 /\ UNCHANGED <<error, attempt>>
            ELSE IF ~is_RequestException(r.end)
            THEN /\ phase' = "raised"
                 /\ error' = [kind |-> r.end, attempt |-> attempt + 1]
                 /\ UNCHANGED <<retval, attempt>>
            ELSE /\ attempt' = attempt + 1
                 /\ retval' = retval
                 /\ IF attempts_exhausted(attempt', retries)
                    THEN /\ phase' = "raised"
                         /\ error' = [kind |-> r.end, attempt |-> attempt']
                    ELSE UNCHANGED <<phase, error>>
    /\ UNCHANGED <<call, all_data, method, retries, json_error_is_transport>>
    /\ UNCHANGED <<webVars, apiVars, textVars>>

ClientNext == FetchHeaders \/ RetryExit \/ RetryAttempt

ClientSpec == ClientInit /\ [][ClientNext]_vars

(***************************************************************************)
(* DataCleaner                                                             *)
(***************************************************************************)
Alphabet == {"<", ">", "\n", "A", "a"}
Strings == UNION { [1..n -> Alphabet] : n \in 0..MaxLen }

\* Where the match of '<.*?>' that starts at the '<' in position i ends: the
\* first '>' after i, if no newline lies between ('.' matches no newline);
\* 0 when there is no match at i.
MatchEnd(s, i) ==
    LET closers == { j \in (i+1)..Len(s) :
                       /\ s[j] = ">"
                       /\ \A k \in (i+1)..(j-1) : s[k] # "\n" }
    IN  IF closers = {} THEN 0
        ELSE CHOOSE j \in closers : \A k \in closers : j <= k

\* re.sub over the text from position i on: matches are found left to right
\* and do not overlap.
RECURSIVE sub_from(_, _)
sub_from(s, i) ==
    IF i > Len(s) THEN <<>>
    ELSE IF s[i] = "<" /\ MatchEnd(s, i) # 0
    THEN sub_from(s, MatchEnd(s, i) + 1)
    ELSE <<s[i]>> \o sub_from(s, i + 1)

\* The same for the pattern '<[^<]*?>', whose tags hold no '<'.
MatchEndNoNested(s, i) ==
    LET closers == { j \in (i+1)..Len(s) :
                       /\ s[j] = ">"
                       /\ \A k \in (i+1)..(j-1) : s[k] \notin {"\n", "<"} }
    IN  IF closers = {} THEN 0
        ELSE CHOOSE j \in closers : \A k \in closers : j <= k

RECURSIVE sub_from_no_nested(_, _)
sub_from_no_nested(s, i) ==
    IF i > Len(s) THEN <<>>
    ELSE IF s[i] = "<" /\ MatchEndNoNested(s, i) # 0
    THEN sub_from_no_nested(s, MatchEndNoNested(s, i) + 1)
    ELSE <<s[i]>> \o sub_from_no_nested(s, i + 1)

\* A variant of remove_html_tags with that pattern.
remove_html_tags_no_nested(s) == sub_from_no_nested(s, 1)

\* remove_html_tags(text): re.sub(re.compile('<.*?>'), '', text)
remove_html_tags(s) == sub_from(s, 1)

\* remove_special_characters(text): re.sub(r'[^a-zA-Z\s]', '', text)
remove_special_characters(s) ==
    SelectSeq(s, LAMBDA c : c \in {"A", "a", "\n"})

\* to_lowercase(text): text.lower()
to_lowercase(s) == [i \in 1..Len(s) |-> IF s[i] = "A" THEN "a" ELSE s[i]]

\* normalize_text with remove_stopwords, use_stemming and use_lemmatization
\* switched off (they run the external tokenizer).
normalize_text(s, f) ==
    LET t1 == IF f.remove_html THEN remove_html_tags(s) ELSE s
        t2 == IF f.remove_special_chars THEN remove_special_characters(t1)
              ELSE t1
    IN  IF f.to_lower THEN to_lowercase(t2) ELSE t2

TextInit ==
    /\ call = "normalize_text"
    /\ Started
    /\ method = "GET"
    /\ text \in Strings
    /\ flags \in [remove_html : BOOLEAN, remove_special_chars : BOOLEAN,
                  to_lower : BOOLEAN]
    /\ passes = <<>>
    /\ IdleWeb /\ IdleApi /\ IdleRetry

\* normalize_text applied to the text, then to its own output.
Normalize ==
    /\ call = "normalize_text"
    /\ Len(passes) < 2
    /\ passes' = Append(passes,
                   normalize_text(IF passes = <<>> THEN text
                                  ELSE passes[Len(passes)], flags))
    /\ phase' = IF Len(passes') = 2 THEN "returned" ELSE phase
    /\ UNCHANGED <<call, log, all_data, retval, error, method, text, flags>>
    /\ UNCHANGED <<webVars, apiVars, retryVars>>

TextNext == Normalize

TextSpec == TextInit /\ [][TextNext]_vars

(***************************************************************************)
(* Both pagination loops.                                                  *)
(***************************************************************************)
PagingInit == WebInit \/ PagedInit

PagingNext ==
    HandlePaginationExit \/ HandlePaginationIterate \/ FetchPaginatedIterate

PagingSpec == PagingInit /\ [][PagingNext]_vars

\* Python runs the loop body again as long as the call has not ended.
FairPagingSpec == PagingSpec /\ WF_vars(PagingNext)

(***************************************************************************)
(* Properties                                                              *)
(***************************************************************************)
\* The network calls issued so far, in order.
Requests == SelectSeq(log, LAMBDA e : e.op = "request")
NumRequests == Len(Requests)
\* The policy consultations made so far, in order.
Consultations == SelectSeq(log, LAMBDA e : e.op = "can_fetch")

\* The source is a chain: the walk from the start reaches a page without a
\* next-page reference.
IsChain == Chain # <<>> /\ ~HasNextRef(Chain[Len(Chain)])

RECURSIVE ItemsOf(_)
ItemsOf(ps) ==
    IF ps = <<>> THEN <<>> ELSE site[Head(ps)].items \o ItemsOf(Tail(ps))

RECURSIVE Flatten(_)
Flatten(ss) == IF ss = <<>> THEN <<>> ELSE Head(ss) \o Flatten(Tail(ss))

\* Every fetch of the run succeeds: the method is one fetch_page sends, the
\* policy allows every page of the chain, and no network call has failed.
WebFetchesSucceed ==
    /\ method \in {"GET", "POST"}
    /\ \A i \in 1..Len(Chain) : Chain[i] \notin disallowed
    /\ \A i \in 1..NumRequests : Requests[i].outcome = "ok"

\* C1: on a chain of N pages whose fetches all succeed, handle_pagination
\* fetches the pages of the chain in order (page k+1 at the reference found on
\* page k), has accumulated exactly the items of the pages fetched so far in
\* page-then-item order, is still running before the N-th fetch and has
\* returned right after it, with the concatenation of all N pages' items.
C1_LinkPagination ==
    (call = "handle_pagination" /\ IsChain /\ WebFetchesSucceed) =>
        LET N == Len(Chain)
            k == NumRequests
        IN  /\ k <= N
            /\ \A i \in 1..k : Requests[i].url = Chain[i]
            /\ all_data = ItemsOf(SubSeq(Chain, 1, k))
            /\ phase = (IF k = N THEN "returned" ELSE "running")
            /\ phase = "returned" => retval = Value(ItemsOf(Chain))

\* A chain of three pages, the first and the last non-empty, fully fetched.
C1_Witness ==
    /\ call = "handle_pagination" /\ IsChain /\ WebFetchesSucceed
    /\ Len(Chain) = 3
    /\ phase = "returned"
    /\ NumRequests = 3
    /\ Len(retval.value) = 4

\* C2: every network call of handle_pagination is immediately preceded by a
\* can_fetch consultation for the same URL that answered true; a consultation
\* that answers false is the last event of the run, which ends with the policy
\* error; and when the k-th consultation is the first denial exactly k-1
\* network calls have been made and the run is over.
C2_PolicyBeforeRequest ==
    call = "handle_pagination" =>
        /\ \A i \in 1..Len(log) :
             /\ log[i].op = "request" =>
                  /\ i > 1
                  /\ log[i-1].op = "can_fetch"
                  /\ log[i-1].url = log[i].url
                  /\ log[i-1].allowed
                  /\ log[i].url \notin disallowed
             /\ log[i].op = "can_fetch" =>
                  /\ log[i].allowed = (log[i].url \notin disallowed)
                  /\ ~log[i].allowed =>
                       /\ i = Len(log)
                       /\ phase = "raised"
                       /\ error.kind = "PermissionError"
                       /\ NumRequests = Len(Consultations) - 1
        /\ error.kind = "PermissionError" =>
             /\ log # <<>>
             /\ ~log[Len(log)].allowed

\* The policy denies the third page: two network calls, then the policy error.
C2_Witness ==
    /\ call = "handle_pagination"
    /\ error.kind = "PermissionError"
    /\ Len(Consultations) = 3
    /\ NumRequests = 2

\* How an attempt whose network call had this outcome fails.
KindOf(outcome) ==
    IF outcome = "malformed" THEN "JSONDecodeError" ELSE "RequestException"
\* The attempt behind network call e failed with a transport error.
TransportFailure(e) ==
    \/ e.outcome \in {"status", "connection"}
    \/ e.outcome = "malformed" /\ json_error_is_transport
AllTransportFailures(n) == \A i \in 1..n : TransportFailure(Requests[i])

\* C3: with retries = n >= 1, fetch_data_with_retry makes at most n attempts,
\* each made only after the earlier ones failed with a transport error;
\* it returns the result of the first successful attempt and attempts nothing
\* more; while fewer than n attempts have all failed it keeps trying; and when
\* n attempts have all failed with a transport error it raises the error of
\* the n-th attempt.
C3_BoundedRetry ==
    (call = "fetch_data_with_retry" /\ retries >= 1) =>
        LET k == NumRequests IN
        /\ k <= retries
        /\ AllTransportFailures(k - 1)
        /\ phase = "returned" <=> (k >= 1 /\ Requests[k].outcome = "ok")
        /\ phase = "returned" => retval = Value(Requests[k].items)
        /\ (AllTransportFailures(k) /\ k < retries
              /\ method \in {"GET", "POST", "PUT", "DELETE"})
             => (phase = "running" /\ attempt = k)
        /\ (AllTransportFailures(k) /\ k = retries)
             => /\ phase = "raised"
                /\ error = [kind |-> KindOf(Requests[k].outcome),
                            attempt |-> retries]

\* Two failures then a success with retries = 3: returned after 3 attempts.
C3_Witness ==
    /\ call = "fetch_data_with_retry"
    /\ retries = 3
    /\ NumRequests = 3
    /\ AllTransportFailures(2)
    /\ phase = "returned"
    /\ retval = Value(<<"a", "b">>)

\* C4: the k-th request of fetch_paginated_data carries next_page_param set to
\* start_page + (k - 1); a request is made only after every earlier response
\* succeeded and carried a 'next' relation; the call has returned exactly when
\* the last response succeeded and carried none, whatever its items; and the
\* result is the concatenation of the fetched pages' items in request order.
C4_PageNumberPagination ==
    call = "fetch_paginated_data" =>
        LET k == NumRequests IN
        /\ \A i \in 1..k :
             DictGet(Requests[i].params, next_page_param) = start_page + (i - 1)
        /\ \A i \in 1..(k - 1) :
             Requests[i].outcome = "ok" /\ Requests[i].hasNext
        /\ phase = "returned" <=>
             (k >= 1 /\ Requests[k].outcome = "ok" /\ ~Requests[k].hasNext)
        /\ phase = "returned" =>
             retval = Value(Flatten([i \in 1..k |-> Requests[i].items]))
        /\ phase = "running" =>
             /\ page = start_page + k
             /\ all_data = Flatten([i \in 1..k |-> Requests[i].items])

\* Three requests: an empty page with a 'next' relation does not stop the
\* loop, a non-empty page without one does.
C4_Witness ==
    /\ call = "fetch_paginated_data"
    /\ phase = "returned"
    /\ NumRequests = 3
    /\ Requests[1].items = <<>>
    /\ Requests[3].items # <<>>
    /\ start_page = 1

\* C5: in both pagination loops a network call that fails is the last event of
\* the call: the call has ended with that error, nothing is requested after
\* it, and nothing is returned, whatever the accumulator holds.
C5_AbortOnFailure ==
    call \in {"handle_pagination", "fetch_paginated_data"} =>
        /\ \A i \in 1..Len(log) :
             (log[i].op = "request" /\ log[i].outcome # "ok") =>
                 /\ i = Len(log)
                 /\ phase = "raised"
                 /\ error.kind = KindOf(log[i].outcome)
        /\ phase = "raised" => retval = None
        /\ phase = "returned" => retval = Value(all_data)

\* The third page fails after two pages of items were accumulated.
C5_Witness ==
    /\ call \in {"handle_pagination", "fetch_paginated_data"}
    /\ phase = "raised"
    /\ NumRequests = 3
    /\ Requests[3].outcome = "status"
    /\ Len(all_data) = 4
    /\ retval = None

\* C6: when fetch_paginated_data has returned or raised, the dict the caller
\* passed as params holds what it held before the call.
C6_DescriptorUnchanged ==
    (call = "fetch_paginated_data" /\ phase # "running") =>
        callerParams = callerBefore

\* C7: a call of the API client whose method is one of GET, POST, PUT,
\* DELETE, HEAD reaches the transport and does not end with the
\* unsupported-method error; fetch_headers issues one HEAD request.
C7_MethodDispatch ==
    /\ (call = "fetch_data_with_retry" /\ retries >= 1 /\ phase # "running"
          /\ method \in {"GET", "POST", "PUT", "DELETE", "HEAD"})
         => (NumRequests >= 1 /\ error.kind # "ValueError")
    /\ (call = "fetch_headers" /\ phase # "running")
         => (NumRequests = 1 /\ Requests[1].method = "HEAD"
               /\ error.kind # "ValueError")
    /\ (call \in {"fetch_headers", "fetch_data_with_retry"}
          /\ error.kind = "ValueError") => NumRequests = 0

\* Response i of the run carries no continuation signal.
NoContinuation(e) ==
    /\ e.outcome = "ok"
    /\ IF call = "handle_pagination" THEN ~HasNextRef(e.url) ELSE ~e.hasNext
SomeFetchedNoContinuation ==
    \E i \in 1..NumRequests : NoContinuation(Requests[i])
EmptyStart ==
    call = "handle_pagination" /\ start = EmptyUrl /\ NumRequests = 0

\* C8 as stated: a pagination loop has returned only if some fetched page
\* carried no continuation signal.
C8_ReturnsOnlyAfterTerminalPage ==
    (call \in {"handle_pagination", "fetch_paginated_data"}
       /\ phase = "returned") => SomeFetchedNoContinuation

\* C8 amended: a pagination loop has returned only if some fetched page
\* carried no continuation signal or, for handle_pagination, the start url is
\* empty and nothing was fetched, and it has returned as soon as a fetched
\* page carried none; as long as the call has not ended another
\* iteration follows, one network call each, so a source whose pages all carry
\* a next reference is never returned from; and handle_pagination called on a
\* chain (or with an empty url) eventually ends.
C8_Termination ==
    /\ [](call \in {"handle_pagination", "fetch_paginated_data"} =>
            /\ phase = "returned" => (SomeFetchedNoContinuation \/ EmptyStart)
            /\ SomeFetchedNoContinuation => phase = "returned"
            /\ (phase = "running" /\ NumRequests < MaxFetches)
                 => ENABLED PagingNext
            /\ (call = "handle_pagination" /\ start # EmptyUrl /\ ~IsChain)
                 => phase # "returned")
    /\ [][(phase = "running" /\ phase' = "running")
            => (NumRequests' = NumRequests + 1
                  /\ Len(all_data') >= Len(all_data))]_vars
    /\ (call = "handle_pagination" /\ (IsChain \/ start = EmptyUrl))
          ~> (phase # "running")

\* A cycle of pages: after MaxFetches fetches the loop is still running and
\* the accumulator has grown.
C8_Witness ==
    /\ call = "handle_pagination"
    /\ ~IsChain /\ start # EmptyUrl
    /\ phase = "running"
    /\ NumRequests = MaxFetches
    /\ Len(all_data) >= 6

\* C9: with only remove_html and to_lower enabled, applying normalize_text to
\* its own output gives that output again.
C9_Idempotent ==
    (call = "normalize_text" /\ Len(passes) = 2
       /\ flags = [remove_html |-> TRUE, remove_special_chars |-> FALSE,
                   to_lower |-> TRUE])
      => passes[2] = passes[1]

\* A text that loses a tag and a capital and keeps an unclosed '<'.
C9_Witness ==
    /\ call = "normalize_text" /\ Len(passes) = 2
    /\ flags = [remove_html |-> TRUE, remove_special_chars |-> FALSE,
                to_lower |-> TRUE]
    /\ text = <<"<", "A", "<", ">">>
    /\ passes[1] = <<>>

\* C10: fetch_data_with_retry with retries <= 0 makes no attempt and returns
\* None without an error; with retries >= 1 and a method _make_request
\* rejects, the unsupported-method error leaves the call from its first
\* attempt with no network call; and any error the wrapper does not catch
\* leaves the call from the attempt it occurred in.
C10_NoAttemptAndNoRetry ==
    call = "fetch_data_with_retry" =>
        /\ retries <= 0 =>
             /\ NumRequests = 0 /\ attempt = 0
             /\ error = NoError
             /\ phase \in {"running", "returned"}
             /\ retval = None
        /\ (retries >= 1 /\ phase # "running"
              /\ method \notin {"GET", "POST", "PUT", "DELETE"}) =>
             /\ phase = "raised"
             /\ error = [kind |-> "ValueError", attempt |-> 1]
             /\ NumRequests = 0 /\ attempt = 0
        /\ (phase = "raised" /\ NumRequests >= 1
              /\ ~TransportFailure(Requests[NumRequests])) =>
             /\ error.kind = KindOf(Requests[NumRequests].outcome)
             /\ error.attempt = NumRequests
             /\ attempt = NumRequests - 1

\* retries = -1: returned None at once.
C10_Witness ==
    /\ call = "fetch_data_with_retry"
    /\ retries = -1
    /\ phase = "returned"
    /\ retval = None
    /\ NumRequests = 0
=============================================================================
